---- MODULE Spec2Model ----
(***************************************************************************)
(* The drvyn admin dashboard: the shared HTTP client (lib/api.ts), the     *)
(* three table components (bookings, insurance requests, general           *)
(* requests), the dashboard page, the protected layout around them, and    *)
(* the remote backend they talk to.                                        *)
(*                                                                         *)
(* One page component is mounted at a time; `kind` says which one.  Every  *)
(* network call is a record in `calls`: the backend answers it (Respond)   *)
(* and, later, the client's continuations run on the answer (Settle).      *)
(* Responses are handled in any order.                                     *)
(***************************************************************************)
EXTENDS Integers, Sequences, FiniteSets, TLC

\* ------------------------------------------------------------------ bounds
\* entities held by the backend for the mounted resource
NumRows == 2
\* network calls in flight at the same time
MaxCalls == 2
\* mounts of the table component during one page life
MaxMounts == 2
\* how many values of the resource's status enum are used
NumStatuses == 2
\* records each list endpoint holds for the dashboard page, at most
MaxRecords == 2
\* distinct creation times of those records
MaxStamp == 3

\* ------------------------------------------------------------ value spaces
Kinds == {"bookings", "insurance", "requests"}

Ids == 1..NumRows

\* the status enums of src/lib/types as the tables list them
StatusList(k) ==
    IF k = "bookings"
    THEN <<"pending", "confirmed", "completed", "cancelled",
           "not-interested", "to-follow-up", "cold-enq", "booking-confirmed">>
    ELSE IF k = "insurance"
    THEN <<"new", "contacted", "completed", "rejected",
           "not-interested", "to-follow-up", "cold-enq", "booking-confirmed">>
    ELSE <<"new", "in-progress", "resolved", "not-interested",
           "to-follow-up", "cold-enq", "booking-confirmed">>

Statuses(k) == {StatusList(k)[i] : i \in 1..NumStatuses}

\* the tables that keep the module-level globalCachedData
HasCache(k) == k \in {"insurance", "requests"}

\* A text is a sequence of one-character strings.  An absent (undefined)
\* field is the empty text: `undefined?.toLowerCase().includes(f)` and
\* `"".includes(f)` are both falsy for every non-empty f, and the filter is
\* applied for non-empty f only.
Upper == {"A", "B", "C", "H", "T"}

toLowerCase1(c) ==
    CASE c = "A" -> "a"
      [] c = "B" -> "b"
      [] c = "C" -> "c"
      [] c = "H" -> "h"
      [] c = "T" -> "t"
      [] OTHER -> c

toLowerCase(t) == [i \in 1..Len(t) |-> toLowerCase1(t[i])]

\* String.prototype.includes: f occurs in t at some offset
includes(t, f) ==
    \E off \in 0..(Len(t) - Len(f)) :
        \A i \in 1..Len(f) : t[off + i] = f[i]

NoToken == "none"
NoFilter == "undefined"

\* ------------------------------------------------------------------- state
VARIABLES
    kind,           \* which table component is mounted
    catalog,        \* backend: the immutable text fields of each entity
    server,         \* backend: the status of each entity
    data,           \* useState data: the rows the component holds
    globalCachedData, \* module-level cache (insurance, requests)
    isLoading,      \* useState isLoading
    globalFilter,   \* useState globalFilter: the free-text filter
    statusFilter,   \* useState statusFilter
    effectPending,  \* a useEffect run is due (after mount / filter change)
    inst,           \* the mount generation of the live component
    calls,          \* network calls in flight, in issue order
    authToken,      \* lib/api.ts: let authToken
    storage,        \* localStorage['authToken']
    location,       \* window.location.href
    last,           \* the client handler that ran last, with its arguments
    fetched,        \* the last list fetch that succeeded: what it asked and
                    \* what the table held once it was handled
    isAuthenticated, \* DashboardLayout: useState isAuthenticated
    layoutEffect,   \* the mount effect of DashboardLayout is due
    records,        \* backend: the records the dashboard page lists
    promises,       \* dashboard page: the results Promise.all collects
    stats,          \* dashboard page: useState stats
    bookings,       \* dashboard page: useState bookings
    insuranceRequests, \* dashboard page: useState insuranceRequests
    generalRequests, \* dashboard page: useState generalRequests
    loading,        \* dashboard page: useState loading
    error           \* dashboard page: useState error

vars == <<kind, catalog, server, data, globalCachedData, isLoading,
          globalFilter, statusFilter, effectPending, inst, calls,
          authToken, storage, location, last, fetched,
          isAuthenticated, layoutEffect, records, promises, stats, bookings,
          insuranceRequests, generalRequests, loading, error>>

tableVars == <<data, globalCachedData, isLoading, globalFilter, statusFilter,
               effectPending, inst>>
authVars == <<authToken, storage, location>>
backendVars == <<kind, catalog, server>>
layoutVars == <<isAuthenticated, layoutEffect>>
dashVars == <<records, promises, stats, bookings, insuranceRequests,
              generalRequests, loading, error>>
pageVars == <<layoutVars, dashVars>>

\* ----------------------------------------------------------------- backend
Row(id, st, cat) ==
    [_id |-> id, status |-> st,
     brand |-> cat[id].brand, model |-> cat[id].model,
     year |-> cat[id].year, phone |-> cat[id].phone]

RECURSIVE ListFrom(_, _, _, _)
\* the rows of entities id..NumRows that pass the status filter, in id order
ListFrom(id, srv, cat, filter) ==
    IF id > NumRows THEN <<>>
    ELSE IF filter = NoFilter \/ srv[id] = filter
         THEN <<Row(id, srv[id], cat)>> \o ListFrom(id + 1, srv, cat, filter)
         ELSE ListFrom(id + 1, srv, cat, filter)

\* GET /admin/<resource>?status_filter=&skip=0&limit=50
ServerList(srv, cat, filter) == ListFrom(1, srv, cat, filter)

\* the fixed entities of the main specification
DefaultCatalog(k) ==
    [id \in Ids |->
        IF id = 1
        THEN [brand |-> <<"T", "o">>, model |-> <<"C">>, year |-> <<"2", "1">>,
              phone |-> IF k = "bookings" THEN <<"5", "a">> ELSE <<>>]
        ELSE [brand |-> <<"H">>, model |-> <<"c", "i">>, year |-> <<"2", "0">>,
              phone |-> IF k = "bookings" THEN <<"6">> ELSE <<>>]]

\* ---------------------------------------------------------- HTTP client
\* What fetch() can do for one call: a network exception, or a response
\* with a status and a body that is JSON ("json"), the JSON value null
\* ("null") or not JSON at all ("malformed").
Http(status, body) == [kind |-> "http", status |-> status, body |-> body]
NetworkError == [kind |-> "network", status |-> 0, body |-> "none"]
NoOutcome == [kind |-> "none", status |-> 0, body |-> "none"]

Outcomes ==
    {Http(200, "json"), Http(200, "null"), Http(200, "malformed"),
     Http(401, "json"), Http(500, "malformed"), NetworkError}

\* Response.ok
ok(o) == o.status >= 200 /\ o.status <= 299

\* the backend applies a write exactly when it answers a well-formed 2xx
Applied(o) == o.kind = "http" /\ ok(o) /\ o.body # "malformed"

\* the try block of apiRequest: what it returns, or what it throws
apiRequestTry(o) ==
    IF o.kind = "network"
    THEN [threw |-> TRUE, success |-> FALSE, data |-> "absent",
          error |-> "network"]
    ELSE IF o.status = 401
    THEN [threw |-> TRUE, success |-> FALSE, data |-> "absent",
          error |-> "Authentication failed"]
    ELSE IF ~ok(o)
    THEN [threw |-> TRUE, success |-> FALSE, data |-> "absent",
          error |-> "HTTP error! status"]
    ELSE IF o.body = "malformed"
    THEN [threw |-> TRUE, success |-> FALSE, data |-> "absent",
          error |-> "parse"]
    ELSE [threw |-> FALSE, success |-> TRUE, data |-> o.body,
          error |-> "absent"]

\* a variant of apiRequest whose catch lets the error through
apiRequest_Rethrow(o) == apiRequestTry(o)

\* apiRequest: the try block, and the catch that turns a throw into a result
apiRequest(o) ==
    LET r == apiRequestTry(o)
    IN  IF r.threw
        THEN [threw |-> FALSE, success |-> FALSE, data |-> "absent",
              error |-> r.error]
        ELSE r

\* a variant of getAuthToken that never looks into localStorage
getAuthToken_MemoryOnly(tok, stored) == tok

\* getAuthToken: the value returned (and left in authToken)
getAuthToken(tok, stored) == IF tok = NoToken THEN stored ELSE tok

\* `response.success && response.data`: data is truthy
Usable(r) == r.success /\ r.data = "json"

\* ------------------------------------------------------------ API modules
\* Number.prototype.toString, radix 10, of a non-negative integer
Digit == <<"0", "1", "2", "3", "4", "5", "6", "7", "8", "9">>

RECURSIVE toString(_)
toString(n) ==
    IF n < 10 THEN Digit[n + 1]
    ELSE toString(n \div 10) \o Digit[(n % 10) + 1]

RECURSIVE URLSearchParams_toString(_)
\* URLSearchParams.prototype.toString: name=value pairs in the order they
\* were appended, joined by "&".  The names and values used here are made of
\* letters, digits, "-" and "_", which the serialiser leaves as they are.
URLSearchParams_toString(params) ==
    IF Len(params) = 0 THEN ""
    ELSE IF Len(params) = 1 THEN params[1][1] \o "=" \o params[1][2]
    ELSE params[1][1] \o "=" \o params[1][2] \o "&"
         \o URLSearchParams_toString(Tail(params))

\* the default values of getAll's skip and limit parameters
DefaultSkip == 0
DefaultLimit == 50

\* a variant of the parameter list that appends the filter last
getAllParams_FilterLast(filter, skip, limit) ==
    <<<<"skip", toString(skip)>>, <<"limit", toString(limit)>>>>
    \o (IF filter # NoFilter /\ filter # ""
        THEN <<<<"status_filter", filter>>>> ELSE <<>>)

\* the body of getAll: the parameters appended to `params`, in order
getAllParams(filter, skip, limit) ==
    (IF filter # NoFilter /\ filter # ""
     THEN <<<<"status_filter", filter>>>> ELSE <<>>)
    \o <<<<"skip", toString(skip)>>, <<"limit", toString(limit)>>>>

\* the path of a resource's list endpoint
ListPath(k) ==
    IF k = "bookings" THEN "/admin/bookings"
    ELSE IF k = "insurance" THEN "/admin/insurance-requests"
    ELSE "/admin/car-requests"

\* <resource>Api.getAll(...args): the endpoint handed to apiRequest.  A
\* missing argument takes its default; generalRequestsApi.getAll has no
\* statusFilter parameter, its arguments are (skip, limit).
getAll(k, args) ==
    LET shift == IF k = "requests" THEN 1 ELSE 0
        filter == IF k # "requests" /\ Len(args) >= 1 THEN args[1]
                  ELSE NoFilter
        skip == IF Len(args) >= 2 - shift THEN args[2 - shift]
                ELSE DefaultSkip
        limit == IF Len(args) >= 3 - shift THEN args[3 - shift]
                 ELSE DefaultLimit
    IN  ListPath(k) \o "?"
        \o URLSearchParams_toString(getAllParams(filter, skip, limit))

\* ------------------------------------------------------------ table logic
\* a variant of the free-text predicate that lower-cases the fields only
MatchesText_RawFilter(k, item, f) ==
    \/ includes(toLowerCase(item.brand), f)
    \/ includes(toLowerCase(item.model), f)
    \/ includes(toLowerCase(item.year), f)
    \/ (k = "bookings" /\ includes(item.phone, f))

\* the free-text predicate of filteredData
MatchesText(k, item, f) ==
    \/ includes(toLowerCase(item.brand), toLowerCase(f))
    \/ includes(toLowerCase(item.model), toLowerCase(f))
    \/ includes(toLowerCase(item.year), toLowerCase(f))
    \/ (k = "bookings" /\ includes(item.phone, f))

\* whether filteredData keeps the row
Keeps(k, item, sf, gf) ==
    /\ (HasCache(k) /\ sf # "all") => item.status = sf
    /\ gf # <<>> => MatchesText(k, item, gf)

\* filteredData: the rows handed to the table
filteredData(k, rows, sf, gf) ==
    SelectSeq(rows, LAMBDA item : Keeps(k, item, sf, gf))

\* a variant of the row write whose test is `index <= rowIndex`
SetStatusAt_UpTo(rows, rowIndex, v) ==
    [i \in 1..Len(rows) |->
        IF i <= rowIndex THEN [rows[i] EXCEPT !.status = v] ELSE rows[i]]

\* old.map((row, index) => index === rowIndex ? {...row, status: v} : row)
SetStatusAt(rows, rowIndex, v) ==
    [i \in 1..Len(rows) |->
        IF i = rowIndex THEN [rows[i] EXCEPT !.status = v] ELSE rows[i]]

NoCache == [has |-> FALSE, rows |-> <<>>]
Cached(rows) == [has |-> TRUE, rows |-> rows]

NoCall ==
    [op |-> "none", inst |-> 0, filter |-> NoFilter, rowIndex |-> 0, id |-> 0,
     prev |-> "none", value |-> "none", auth |-> NoToken,
     phase |-> "none", outcome |-> NoOutcome, rows |-> <<>>, seen |-> <<>>,
     endpoint |-> ""]

FetchCall(i, filter, tok) ==
    [NoCall EXCEPT !.op = "fetch", !.inst = i, !.filter = filter,
                   !.auth = tok, !.phase = "sent"]

UpdateCall(i, rowIndex, row, value, tok) ==
    [NoCall EXCEPT !.op = "update", !.inst = i, !.rowIndex = rowIndex,
                   !.id = row._id, !.prev = row.status, !.value = value,
                   !.auth = tok, !.phase = "sent"]

\* the call as it was when it was issued
AsSent(c) ==
    [c EXCEPT !.phase = "sent", !.outcome = NoOutcome, !.rows = <<>>,
              !.seen = <<>>]

RemoveAt(s, k) == [i \in 1..(Len(s) - 1) |-> IF i < k THEN s[i] ELSE s[i + 1]]

NoResult == [threw |-> FALSE, success |-> FALSE, data |-> "absent",
             error |-> "absent"]

\* the record kept in `last`
Handler(op, call, direct, result) ==
    [op |-> op, call |-> call, direct |-> direct, result |-> result]

\* a variant of the row initialiser that prefers a non-empty initialData
\* prop to the cache
InitialRows_PropFirst(k, cache, initialData) ==
    IF Len(initialData) > 0 THEN initialData
    ELSE IF HasCache(k) /\ cache.has THEN cache.rows
    ELSE initialData

\* useState initialisers of the table component
InitialRows(k, cache, initialData) ==
    IF HasCache(k) /\ cache.has THEN cache.rows ELSE initialData

InitialLoading(k, cache, initialData) ==
    IF HasCache(k) THEN ~cache.has /\ Len(initialData) = 0 ELSE FALSE

\* window.location.href / the router's path: a dashboard route, the login
\* route reached through the router (the document lives on), or the login
\* route assigned to window.location.href (the document is being replaced)
Dashboard == "/dashboard"
Login == "/login"
ForcedLogin == "href=/login"

\* the document is alive, on a dashboard route: its components can act
Alive == location = Dashboard

\* the record kept in `fetched`: the filter the fetch asked for, the backend
\* statuses its answer was computed from, the rows the table held once the
\* answer was handled, and whether the fetch before it asked the same of the
\* same backend statuses.  The record is kept only where `track` is set.
NoFetched ==
    [track |-> FALSE, valid |-> FALSE, filter |-> NoFilter, seen |-> <<>>,
     rows |-> <<>>, again |-> FALSE]

Tracking == [NoFetched EXCEPT !.track = TRUE]

Fetched(c, rows, before) ==
    [track |-> TRUE, valid |-> TRUE, filter |-> c.filter, seen |-> c.seen,
     rows |-> rows,
     again |-> before.valid /\ before.filter = c.filter
                            /\ before.seen = c.seen]

\* --------------------------------------------------------- dashboard page
\* the four calls of fetchDashboardData, in the order Promise.all lists them
DashboardCalls ==
    <<"getStats", "getBookings", "getInsuranceRequests", "getGeneralRequests">>

DashboardOps == {DashboardCalls[i] : i \in 1..Len(DashboardCalls)}

\* the three list calls
ListOps == DashboardOps \ {"getStats"}

\* the endpoint each of the four calls hands to apiRequest
DashboardEndpoint(op) ==
    IF op = "getStats" THEN "/admin/dashboard/stats"
    ELSE IF op = "getBookings" THEN getAll("bookings", <<>>)
    ELSE IF op = "getInsuranceRequests" THEN getAll("insurance", <<>>)
    ELSE getAll("requests", <<>>)

\* a promise of Promise.all: not settled, or settled with an ApiResponse
Pending == [done |-> FALSE, result |-> NoResult, rows |-> <<>>]
Settled(r, rows) == [done |-> TRUE, result |-> r, rows |-> rows]
NoPromises == [op \in DashboardOps |-> Pending]

\* a variant of Promise.all that resolves with the first promise
PromiseAll_Race(p) == \E op \in DashboardOps : p[op].done

\* Promise.all: resolved once every promise is
PromiseAll(p) == \A op \in DashboardOps : p[op].done

NoRecords == [op \in ListOps |-> <<>>]

\* useState initialisers of DashboardPage
DashboardPageInit ==
    /\ promises = NoPromises
    /\ stats = "null"
    /\ bookings = <<>>
    /\ insuranceRequests = <<>>
    /\ generalRequests = <<>>
    /\ loading = TRUE
    /\ error = "null"

\* what DashboardPage returns
View ==
    IF loading THEN "loading"
    ELSE IF error # "null" \/ stats = "null" THEN "error"
    ELSE "page"

\* a table route is open: the layout has rendered its children, and the
\* dashboard page is not in use
TableRoute ==
    /\ isAuthenticated = TRUE
    /\ layoutEffect = FALSE
    /\ records = NoRecords
    /\ DashboardPageInit

\* ------------------------------------------------------------------ Init
Tokens == {"t1"}

Init ==
    /\ kind \in Kinds
    /\ catalog = DefaultCatalog(kind)
    /\ server \in [Ids -> Statuses(kind)]
    /\ \E initialData \in {<<>>, ServerList(server, catalog, NoFilter)} :
          /\ data = InitialRows(kind, NoCache, initialData)
          /\ isLoading = InitialLoading(kind, NoCache, initialData)
    /\ globalCachedData = NoCache
    /\ globalFilter = <<>>
    /\ statusFilter = "all"
    /\ effectPending = TRUE
    /\ inst = 1
    /\ calls = <<>>
    /\ authToken = NoToken
    /\ storage \in Tokens
    /\ location = Dashboard
    /\ last = Handler("mount", NoCall, FALSE, NoResult)
    /\ fetched = NoFetched
    /\ TableRoute

\* --------------------------------------------------------------- actions
\* useEffect(() => { fetchData() }, deps): the part of fetchData that runs
\* before the await, apiRequest's prefix included
fetchData ==
    /\ Alive /\ effectPending /\ Len(calls) < MaxCalls
    /\ LET tok == getAuthToken(authToken, storage)
           arg == IF kind = "bookings" /\ statusFilter # "all"
                  THEN statusFilter ELSE NoFilter
           c == [FetchCall(inst, arg, tok) EXCEPT
                    !.endpoint = getAll(kind, IF kind = "bookings"
                                              THEN <<arg>> ELSE <<>>)]
       IN  /\ authToken' = tok
           /\ calls' = Append(calls, c)
           /\ last' = Handler("fetchData", c, FALSE, NoResult)
    /\ isLoading' = IF kind = "bookings" \/ Len(data) = 0 THEN TRUE
                    ELSE isLoading
    /\ effectPending' = FALSE
    /\ UNCHANGED <<backendVars, data, globalCachedData, globalFilter,
                   statusFilter, inst, storage, location, fetched, pageVars>>

\* onChange of the search input
setGlobalFilter(f) ==
    /\ Alive /\ ~effectPending
    /\ globalFilter' = f
    /\ last' = Handler("setGlobalFilter", NoCall, FALSE, NoResult)
    /\ UNCHANGED <<backendVars, data, globalCachedData, isLoading,
                   statusFilter, effectPending, inst, calls, authVars,
                   fetched, pageVars>>

\* onValueChange of the status select; in the bookings table statusFilter
\* is a dependency of the fetch effect
setStatusFilter(s) ==
    /\ Alive /\ ~effectPending
    /\ statusFilter' = s
    /\ effectPending' = (kind = "bookings" /\ s # statusFilter)
    /\ last' = Handler("setStatusFilter", NoCall, FALSE, NoResult)
    /\ UNCHANGED <<backendVars, data, globalCachedData, isLoading,
                   globalFilter, inst, calls, authVars, fetched, pageVars>>

\* the optimistic phase of updateData: the local write (and the cache
\* write), then the call of <resource>Api.updateStatus up to its await
optimisticUpdate(rowIndex, booking, value) ==
    /\ Len(calls) < MaxCalls
    /\ LET tok == getAuthToken(authToken, storage)
           c == UpdateCall(inst, rowIndex, booking, value, tok)
           newData == SetStatusAt(data, rowIndex, value)
       IN  /\ data' = newData
           /\ globalCachedData' =
                 IF HasCache(kind) THEN Cached(newData) ELSE globalCachedData
           /\ authToken' = tok
           /\ calls' = Append(calls, c)
           /\ last' = Handler("updateData", c, FALSE, NoResult)
    /\ UNCHANGED <<backendVars, isLoading, globalFilter, statusFilter,
                   effectPending, inst, storage, location, fetched, pageVars>>

\* a variant of updateData that refuses a second write to a row while one
\* is outstanding
updateData_Exclusive(rowIndex, columnId, value) ==
    /\ \A k \in 1..Len(calls) :
          ~(calls[k].op = "update" /\ calls[k].rowIndex = rowIndex)
    /\ IF columnId = "status" /\ data[rowIndex]._id # 0
       THEN optimisticUpdate(rowIndex, data[rowIndex], value)
       ELSE /\ last' = Handler("updateData", NoCall, FALSE, NoResult)
            /\ UNCHANGED <<backendVars, tableVars, calls, authVars,
                         fetched, pageVars>>

\* updateData(rowIndex, columnId, value), up to the await
updateData(rowIndex, columnId, value) ==
    LET booking == data[rowIndex]
    IN  IF columnId = "status" /\ booking._id # 0
        THEN optimisticUpdate(rowIndex, booking, value)
        ELSE /\ last' = Handler("updateData", NoCall, FALSE, NoResult)
             /\ UNCHANGED <<backendVars, tableVars, calls, authVars,
                         fetched, pageVars>>

\* the rows the table body renders
Shown ==
    IF isLoading THEN <<>>
    ELSE filteredData(kind, data, statusFilter, globalFilter)

Columns == {"status", "brand"}

\* the status cell of a displayed row is edited: the cell calls
\* table.options.meta.updateData with the row's index in the table
EditCell(i, columnId, value) ==
    /\ Alive /\ ~effectPending
    /\ i \in 1..Len(Shown)
    /\ updateData(i, columnId, value)

\* the backend answers a call
Respond(k, o) ==
    /\ k \in 1..Len(calls)
    /\ calls[k].phase = "sent"
    /\ LET c == calls[k]
           answers == Applied(o) /\ o.body = "json"
           rows == IF c.op = "fetch" /\ answers
                   THEN ServerList(server, catalog, c.filter)
                   ELSE IF c.op \in ListOps /\ answers THEN records[c.op]
                   ELSE <<>>
           seen == IF c.op = "fetch" /\ answers THEN server ELSE <<>>
       IN  /\ calls' = [calls EXCEPT ![k] =
                          [c EXCEPT !.phase = "replied", !.outcome = o,
                                    !.rows = rows, !.seen = seen]]
           /\ server' = IF c.op = "update" /\ Applied(o)
                         THEN [server EXCEPT ![c.id] = c.value]
                         ELSE server
    /\ UNCHANGED <<kind, catalog, tableVars, authVars, last, fetched,
                   pageVars>>

\* a variant of fetchDataDone that applies the table's status filter to the
\* fetched rows before holding them
fetchDataDone_Filtered(c, r) ==
    /\ globalCachedData' =
          IF Usable(r) /\ HasCache(kind) /\ ~r.threw THEN Cached(c.rows)
          ELSE globalCachedData
    /\ data' = IF Usable(r) /\ ~r.threw /\ c.inst = inst
               THEN SelectSeq(c.rows, LAMBDA item :
                        statusFilter = "all" \/ item.status = statusFilter)
               ELSE data
    /\ isLoading' = IF c.inst = inst THEN FALSE ELSE isLoading

\* a variant of fetchDataDone that empties the table when the fetch fails
fetchDataDone_ClearOnFailure(c, r) ==
    /\ globalCachedData' =
          IF Usable(r) /\ HasCache(kind) /\ ~r.threw THEN Cached(c.rows)
          ELSE globalCachedData
    /\ data' = IF c.inst # inst THEN data
               ELSE IF Usable(r) /\ ~r.threw THEN c.rows ELSE <<>>
    /\ isLoading' = IF c.inst = inst THEN FALSE ELSE isLoading

\* a variant of fetchDataDone that adds the fetched rows to those held
fetchDataDone_Append(c, r) ==
    /\ globalCachedData' =
          IF Usable(r) /\ HasCache(kind) /\ ~r.threw THEN Cached(c.rows)
          ELSE globalCachedData
    /\ data' = IF Usable(r) /\ ~r.threw /\ c.inst = inst THEN data \o c.rows
               ELSE data
    /\ isLoading' = IF c.inst = inst THEN FALSE ELSE isLoading

\* a variant of fetchDataDone that ends the loading state in the success
\* branch instead of a finally block
fetchDataDone_NoFinally(c, r) ==
    /\ globalCachedData' =
          IF Usable(r) /\ HasCache(kind) /\ ~r.threw THEN Cached(c.rows)
          ELSE globalCachedData
    /\ data' = IF Usable(r) /\ ~r.threw /\ c.inst = inst THEN c.rows
               ELSE data
    /\ isLoading' = IF Usable(r) /\ ~r.threw /\ c.inst = inst THEN FALSE
                    ELSE isLoading

\* the continuation of fetchData after the await
fetchDataDone(c, r) ==
    /\ globalCachedData' =
          IF Usable(r) /\ HasCache(kind) /\ ~r.threw THEN Cached(c.rows)
          ELSE globalCachedData
    /\ data' = IF Usable(r) /\ ~r.threw /\ c.inst = inst THEN c.rows
               ELSE data
    /\ isLoading' = IF c.inst = inst THEN FALSE ELSE isLoading

\* a variant of updateDataDone without the revert
updateDataDone_NoRevert(c, r) ==
    UNCHANGED <<data, globalCachedData, isLoading>>

\* the continuation of updateData after the await
updateDataDone(c, r) ==
    /\ data' = IF (r.threw \/ ~r.success) /\ c.inst = inst
               THEN SetStatusAt(data, c.rowIndex, c.prev)
               ELSE data
    /\ UNCHANGED <<globalCachedData, isLoading>>

\* a variant of clearAuthToken that forgets localStorage.removeItem
clearAuthToken_MemoryOnly ==
    /\ authToken' = NoToken
    /\ UNCHANGED storage

\* clearAuthToken
clearAuthToken ==
    /\ authToken' = NoToken
    /\ storage' = NoToken

\* a variant of fetchDashboardDataDone that reports an error when any of
\* the four calls failed
fetchDashboardDataDone_StrictAll(p) ==
    /\ stats' = IF Usable(p["getStats"].result) THEN "loaded" ELSE stats
    /\ bookings' = IF Usable(p["getBookings"].result)
                   THEN p["getBookings"].rows ELSE bookings
    /\ insuranceRequests' = IF Usable(p["getInsuranceRequests"].result)
                            THEN p["getInsuranceRequests"].rows
                            ELSE insuranceRequests
    /\ generalRequests' = IF Usable(p["getGeneralRequests"].result)
                          THEN p["getGeneralRequests"].rows
                          ELSE generalRequests
    /\ error' = IF \E op \in DashboardOps : ~p[op].result.success
                THEN "Failed to load dashboard statistics" ELSE error
    /\ loading' = FALSE

\* the continuation of fetchDashboardData after `await Promise.all`
fetchDashboardDataDone(p) ==
    /\ stats' = IF Usable(p["getStats"].result) THEN "loaded" ELSE stats
    /\ bookings' = IF Usable(p["getBookings"].result)
                   THEN p["getBookings"].rows ELSE bookings
    /\ insuranceRequests' = IF Usable(p["getInsuranceRequests"].result)
                            THEN p["getInsuranceRequests"].rows
                            ELSE insuranceRequests
    /\ generalRequests' = IF Usable(p["getGeneralRequests"].result)
                          THEN p["getGeneralRequests"].rows
                          ELSE generalRequests
    /\ error' = IF ~p["getStats"].result.success
                THEN "Failed to load dashboard statistics" ELSE error
    /\ loading' = FALSE

\* one of the four promises settles; Promise.all resolves with the last
promiseSettled(c, r) ==
    LET p == [promises EXCEPT ![c.op] = Settled(r, c.rows)]
    IN  /\ promises' = p
        /\ IF PromiseAll(p) THEN fetchDashboardDataDone(p)
           ELSE UNCHANGED <<stats, bookings, insuranceRequests,
                            generalRequests, loading, error>>

\* the client handles an answer: the rest of apiRequest, then the rest of
\* the caller
Settle(k) ==
    /\ location # ForcedLogin
    /\ k \in 1..Len(calls)
    /\ calls[k].phase = "replied"
    /\ LET c == calls[k]
           r == apiRequest(c.outcome)
       IN  /\ IF c.outcome.kind = "http" /\ c.outcome.status = 401
              THEN /\ clearAuthToken
                   /\ location' = ForcedLogin
              ELSE UNCHANGED authVars
           /\ IF c.op = "fetch" THEN fetchDataDone(c, r)
              ELSE IF c.op = "update" THEN updateDataDone(c, r)
              ELSE UNCHANGED <<data, globalCachedData, isLoading>>
           /\ IF c.op \in DashboardOps THEN promiseSettled(c, r)
              ELSE UNCHANGED <<promises, stats, bookings, insuranceRequests,
                               generalRequests, loading, error>>
           /\ fetched' = IF /\ fetched.track
                            /\ c.op = "fetch" /\ Usable(r) /\ c.inst = inst
                         THEN Fetched(c, data', fetched) ELSE fetched
           /\ last' = Handler("settled", c,
                              /\ last.op = "updateData"
                              /\ last.call = AsSent(c)
                              /\ k = Len(calls), r)
    /\ calls' = RemoveAt(calls, k)
    /\ UNCHANGED <<backendVars, globalFilter, statusFilter, effectPending,
                   inst, layoutVars, records>>

\* the table is unmounted and mounted again (a revisit of its route); the
\* calls of the old instance stay in flight
Remount(initialData) ==
    /\ Alive /\ inst < MaxMounts
    /\ inst' = inst + 1
    /\ data' = InitialRows(kind, globalCachedData, initialData)
    /\ isLoading' = InitialLoading(kind, globalCachedData, initialData)
    /\ globalFilter' = <<>>
    /\ statusFilter' = "all"
    /\ effectPending' = TRUE
    /\ last' = Handler("mount", NoCall, FALSE, NoResult)
    /\ UNCHANGED <<backendVars, globalCachedData, calls, authVars, fetched,
                   pageVars>>

\* the answers the backend gives to a table's calls: for a list, a row
\* array, the JSON value null, or a failure; for a status write, applied or
\* refused
TableOutcomes(op) ==
    IF op = "fetch"
    THEN {Http(200, "json"), Http(200, "null"), Http(401, "json"),
          Http(500, "malformed")}
    ELSE {Http(200, "json"), Http(401, "json"), Http(500, "malformed")}

Next ==
    \/ fetchData
    \/ \E s \in Statuses(kind) \cup {"all"} : setStatusFilter(s)
    \/ \E i \in 1..NumRows, col \in Columns, v \in Statuses(kind) :
          EditCell(i, col, v)
    \/ \E k \in 1..MaxCalls :
          \E o \in TableOutcomes(IF k <= Len(calls) THEN calls[k].op ELSE "none") :
             Respond(k, o)
    \/ \E k \in 1..MaxCalls : Settle(k)

Spec == Init /\ [][Next]_vars

\* the table with revisits of its route, the status select left alone
NextMount ==
    \/ fetchData
    \/ \E i \in 1..NumRows, col \in Columns, v \in Statuses(kind) :
          EditCell(i, col, v)
    \/ \E k \in 1..MaxCalls :
          \E o \in TableOutcomes(IF k <= Len(calls) THEN calls[k].op ELSE "none") :
             Respond(k, o)
    \/ \E k \in 1..MaxCalls : Settle(k)
    \/ \E initialData \in {<<>>, ServerList(server, catalog, NoFilter)} :
          Remount(initialData)

SpecMount == Init /\ [][NextMount]_vars

\* the ways a table fetches its list again: the cached tables are revisited,
\* and in the bookings table the status select, a server-side filter, is
\* moved between "all" and one status.  The list fetches are recorded in
\* `fetched`, and the backend answers or refuses.
InitRefetch ==
    /\ kind \in Kinds
    /\ catalog = DefaultCatalog(kind)
    /\ server \in [Ids -> Statuses(kind)]
    /\ \E initialData \in {<<>>, ServerList(server, catalog, NoFilter)} :
          /\ data = InitialRows(kind, NoCache, initialData)
          /\ isLoading = InitialLoading(kind, NoCache, initialData)
    /\ globalCachedData = NoCache
    /\ globalFilter = <<>>
    /\ statusFilter = "all"
    /\ effectPending = TRUE
    /\ inst = 1
    /\ calls = <<>>
    /\ authToken = NoToken
    /\ storage \in Tokens
    /\ location = Dashboard
    /\ last = Handler("mount", NoCall, FALSE, NoResult)
    /\ fetched = Tracking
    /\ TableRoute

NextRefetch ==
    \/ fetchData
    \/ /\ kind = "bookings"
       /\ \E s \in {"all", StatusList(kind)[1]} : setStatusFilter(s)
    \/ \E i \in 1..NumRows, v \in Statuses(kind) : EditCell(i, "status", v)
    \/ \E k \in 1..MaxCalls :
          \E o \in {Http(200, "json"), Http(500, "malformed")} : Respond(k, o)
    \/ \E k \in 1..MaxCalls : Settle(k)
    \/ /\ HasCache(kind)
       /\ \E initialData \in {<<>>, ServerList(server, catalog, NoFilter)} :
             Remount(initialData)

SpecRefetch == InitRefetch /\ [][NextRefetch]_vars

\* ------------------------------------------------- the HTTP client alone
\* The routes without a table: the login route and the protected layout
\* around a page (customers) that uses the client.  Calls are made, and the
\* token is set, read and cleared around them.
ApiTokens == {"t1", "t2"}

InitApi ==
    /\ kind = "customers"
    /\ catalog = DefaultCatalog(kind)
    /\ server = [id \in Ids |-> StatusList("bookings")[1]]
    /\ data = <<>>
    /\ isLoading = FALSE
    /\ globalCachedData = NoCache
    /\ globalFilter = <<>>
    /\ statusFilter = "all"
    /\ effectPending = FALSE
    /\ inst = 1
    /\ calls = <<>>
    /\ authToken = NoToken
    /\ storage \in ApiTokens \cup {NoToken}
    /\ location \in {Dashboard, Login}
    /\ last = Handler("pageLoad", NoCall, FALSE, NoResult)
    /\ fetched = NoFetched
    /\ isAuthenticated = FALSE
    /\ layoutEffect = (location = Dashboard)
    /\ records = NoRecords
    /\ DashboardPageInit

\* a variant of setAuthToken that forgets localStorage.setItem
setAuthToken_MemoryOnly(token) ==
    /\ location # ForcedLogin
    /\ authToken' = token
    /\ storage' = storage
    /\ last' = Handler("setAuthToken", NoCall, FALSE, NoResult)
    /\ UNCHANGED <<backendVars, tableVars, calls, location, fetched, pageVars>>

\* setAuthToken(token)
setAuthToken(token) ==
    /\ location # ForcedLogin
    /\ authToken' = token
    /\ storage' = token
    /\ last' = Handler("setAuthToken", NoCall, FALSE, NoResult)
    /\ UNCHANGED <<backendVars, tableVars, calls, location, fetched, pageVars>>

\* a caller reads the token: getAuthToken()
readAuthToken ==
    /\ location # ForcedLogin
    /\ authToken' = getAuthToken(authToken, storage)
    /\ last' = Handler("getAuthToken", NoCall, FALSE, NoResult)
    /\ UNCHANGED <<backendVars, tableVars, calls, storage, location, fetched,
                   pageVars>>

\* a variant of handleLogout that navigates without clearing the token
handleLogout_NavigateOnly ==
    /\ Alive /\ isAuthenticated
    /\ UNCHANGED <<authToken, storage>>
    /\ location' = Login
    /\ isAuthenticated' = FALSE
    /\ last' = Handler("handleLogout", NoCall, FALSE, NoResult)
    /\ UNCHANGED <<backendVars, tableVars, calls, fetched, layoutEffect,
                   dashVars>>

\* handleLogout of the sidebar; leaving the dashboard routes unmounts the
\* layout
handleLogout ==
    /\ Alive /\ isAuthenticated
    /\ clearAuthToken
    /\ location' = Login
    /\ isAuthenticated' = FALSE
    /\ last' = Handler("handleLogout", NoCall, FALSE, NoResult)
    /\ UNCHANGED <<backendVars, tableVars, calls, fetched, layoutEffect,
                   dashVars>>

\* one of the domain API functions is called, by the login form or by a
\* page inside the layout: apiRequest up to its await
apiCall ==
    /\ location = Login \/ (Alive /\ isAuthenticated)
    /\ Len(calls) < MaxCalls
    /\ LET tok == getAuthToken(authToken, storage)
           c == [NoCall EXCEPT !.op = "api", !.auth = tok, !.phase = "sent",
                               !.endpoint = IF location = Login
                                            THEN "/admin/login"
                                            ELSE "/admin/customers"]
       IN  /\ authToken' = tok
           /\ calls' = Append(calls, c)
           /\ last' = Handler("apiCall", c, FALSE, NoResult)
    /\ UNCHANGED <<backendVars, tableVars, storage, location, fetched,
                   pageVars>>

\* the document assigned to window.location.href has loaded: the module
\* state and the components of the old document are gone, localStorage stays
PageLoad ==
    /\ location = ForcedLogin
    /\ location' = Login
    /\ authToken' = NoToken
    /\ calls' = <<>>
    /\ globalCachedData' = NoCache
    /\ isAuthenticated' = FALSE
    /\ layoutEffect' = FALSE
    /\ last' = Handler("pageLoad", NoCall, FALSE, NoResult)
    /\ UNCHANGED <<backendVars, data, isLoading, globalFilter, statusFilter,
                   effectPending, inst, storage, fetched, dashVars>>

\* the router opens a dashboard route from the login route: DashboardLayout
\* mounts with isAuthenticated false
visitDashboard ==
    /\ location = Login
    /\ location' = Dashboard
    /\ isAuthenticated' = FALSE
    /\ layoutEffect' = TRUE
    /\ last' = Handler("visitDashboard", NoCall, FALSE, NoResult)
    /\ UNCHANGED <<backendVars, tableVars, calls, authToken, storage, fetched,
                   dashVars>>

\* the sign-in form succeeded: the token is kept and the router opens the
\* dashboard
login(token) ==
    /\ location = Login
    /\ authToken' = token
    /\ storage' = token
    /\ location' = Dashboard
    /\ isAuthenticated' = FALSE
    /\ layoutEffect' = TRUE
    /\ last' = Handler("login", NoCall, FALSE, NoResult)
    /\ UNCHANGED <<backendVars, tableVars, calls, fetched, dashVars>>

\* a variant of the layout's effect that lets the children render without
\* looking at the token
DashboardLayoutEffect_NoCheck ==
    /\ Alive /\ layoutEffect
    /\ authToken' = getAuthToken(authToken, storage)
    /\ isAuthenticated' = TRUE
    /\ layoutEffect' = FALSE
    /\ last' = Handler("DashboardLayout", NoCall, FALSE, NoResult)
    /\ UNCHANGED <<backendVars, tableVars, calls, storage, location, fetched,
                   dashVars>>

\* the mount effect of DashboardLayout: getAuthToken(), then router.push to
\* the login route (the layout unmounts) or setIsAuthenticated(true)
DashboardLayoutEffect ==
    /\ Alive /\ layoutEffect
    /\ LET token == getAuthToken(authToken, storage)
       IN  /\ authToken' = token
           /\ location' = IF token = NoToken THEN Login ELSE location
           /\ isAuthenticated' = (token # NoToken)
    /\ layoutEffect' = FALSE
    /\ last' = Handler("DashboardLayout", NoCall, FALSE, NoResult)
    /\ UNCHANGED <<backendVars, tableVars, calls, storage, fetched, dashVars>>

NextApi ==
    \/ \E t \in ApiTokens : setAuthToken(t)
    \/ \E t \in ApiTokens : login(t)
    \/ visitDashboard
    \/ DashboardLayoutEffect
    \/ readAuthToken
    \/ handleLogout
    \/ apiCall
    \/ \E k \in 1..MaxCalls, o \in Outcomes : Respond(k, o)
    \/ \E k \in 1..MaxCalls : Settle(k)
    \/ PageLoad

SpecApi == InitApi /\ [][NextApi]_vars

\* ------------------------------------------------------ the dashboard page
\* useEffect(() => { fetchDashboardData() }, []): setLoading(true) and the
\* four calls handed to Promise.all, each up to its await
fetchDashboardData ==
    /\ Alive /\ isAuthenticated /\ kind = "dashboard"
    /\ effectPending /\ calls = <<>>
    /\ LET tok == getAuthToken(authToken, storage)
       IN  /\ authToken' = tok
           /\ calls' = [i \in 1..Len(DashboardCalls) |->
                          [NoCall EXCEPT !.op = DashboardCalls[i],
                                         !.inst = inst, !.auth = tok,
                                         !.phase = "sent",
                                         !.endpoint =
                                            DashboardEndpoint(
                                               DashboardCalls[i])]]
    /\ loading' = TRUE
    /\ promises' = NoPromises
    /\ effectPending' = FALSE
    /\ last' = Handler("fetchDashboardData", NoCall, FALSE, NoResult)
    /\ UNCHANGED <<backendVars, data, globalCachedData, isLoading,
                   globalFilter, statusFilter, inst, storage, location,
                   fetched, layoutVars, records, stats, bookings,
                   insuranceRequests, generalRequests, error>>

\* { ...record, type, label }: a record with its source tags
Tag(rows, type, label) ==
    [i \in 1..Len(rows) |->
        [type |-> type, label |-> label, _id |-> rows[i]._id,
         createdAt |-> rows[i].createdAt]]

RECURSIVE SortByCreatedAtDesc(_)
\* Array.prototype.sort with (a, b) => time(b) - time(a): a stable sort, the
\* latest first
SortByCreatedAtDesc(s) ==
    IF Len(s) <= 1 THEN s
    ELSE LET front == SortByCreatedAtDesc(SubSeq(s, 1, Len(s) - 1))
             x == s[Len(s)]
             n == Cardinality({i \in 1..Len(front) :
                                  front[i].createdAt >= x.createdAt})
         IN  SubSeq(front, 1, n) \o <<x>> \o SubSeq(front, n + 1, Len(front))

\* the length of the feed: .slice(0, 5)
FeedSize == 5

\* Array.prototype.slice(0, n)
slice(s, n) == SubSeq(s, 1, IF Len(s) < n THEN Len(s) ELSE n)

\* the three held lists, tagged and concatenated
Activity ==
    Tag(bookings, "Booking", "Booking")
    \o Tag(insuranceRequests, "Insurance", "Insurance")
    \o Tag(generalRequests, "General", "Request")

\* a variant of recentActivity that truncates before it sorts
recentActivity_SliceFirst == SortByCreatedAtDesc(slice(Activity, FeedSize))

\* recentActivity
recentActivity == slice(SortByCreatedAtDesc(Activity), FeedSize)

Stamps == 1..MaxStamp

\* the lists a list endpoint can hold: up to MaxRecords records, each with a
\* creation time
RecordLists ==
    UNION {{[i \in 1..n |-> [_id |-> i, createdAt |-> t[i]]] :
               t \in [1..n -> Stamps]} : n \in 0..MaxRecords}

\* a list endpoint holding nothing, or one record
FewRecords == {<<>>, <<[_id |-> 1, createdAt |-> 1]>>}

\* the dashboard page is mounted inside the layout, over the given backend
\* lists
InitDashboard(lists) ==
    /\ kind = "dashboard"
    /\ catalog = DefaultCatalog(kind)
    /\ server = [id \in Ids |-> StatusList("bookings")[1]]
    /\ data = <<>>
    /\ isLoading = FALSE
    /\ globalCachedData = NoCache
    /\ globalFilter = <<>>
    /\ statusFilter = "all"
    /\ effectPending = TRUE
    /\ inst = 1
    /\ calls = <<>>
    /\ authToken = NoToken
    /\ storage \in Tokens
    /\ location = Dashboard
    /\ last = Handler("mount", NoCall, FALSE, NoResult)
    /\ fetched = NoFetched
    /\ isAuthenticated = TRUE
    /\ layoutEffect = FALSE
    /\ records \in [ListOps -> lists]
    /\ DashboardPageInit

\* the answers the backend gives to the page's calls
DashboardOutcomes == TableOutcomes("fetch")

InitDash == InitDashboard(FewRecords)

NextDash ==
    \/ fetchDashboardData
    \/ \E k \in 1..Len(DashboardCalls), o \in DashboardOutcomes : Respond(k, o)
    \/ \E k \in 1..Len(DashboardCalls) : Settle(k)

SpecDash == InitDash /\ [][NextDash]_vars

\* the page over every choice of backend lists, every call answered with
\* its data
InitFeed == InitDashboard(RecordLists)

NextFeed ==
    \/ fetchDashboardData
    \/ \E k \in 1..Len(DashboardCalls) : Respond(k, Http(200, "json"))
    \/ \E k \in 1..Len(DashboardCalls) : Settle(k)

SpecFeed == InitFeed /\ [][NextFeed]_vars

\* ------------------------------------------------- the filters alone
\* The table holds rows whose text fields are drawn from a pool, and the
\* search input and the status select are used on them.
FieldPool == {<<>>, <<"A", "b">>, <<"b", "a">>}
YearPool == {<<>>, <<"1", "a">>}
PhonePool == {<<>>, <<"1", "a">>, <<"A">>}
FilterLetters == {"a", "A", "b"}

\* what is typed into the search input: up to two letters
FilterTexts ==
    {<<>>} \cup {<<x>> : x \in FilterLetters}
           \cup {<<x, y>> : x \in FilterLetters, y \in FilterLetters}

\* the first entity's fields vary, the others are the fixed ones
FilterCatalogs(k) ==
    {[DefaultCatalog(k) EXCEPT ![1] =
         [brand |-> b, model |-> m, year |-> y, phone |-> p]] :
       b \in FieldPool, m \in FieldPool, y \in YearPool,
       p \in IF k = "bookings" THEN PhonePool ELSE {<<>>}}

InitFilter ==
    /\ kind \in Kinds
    /\ catalog \in FilterCatalogs(kind)
    /\ server \in [Ids -> Statuses(kind)]
    /\ data = InitialRows(kind, NoCache, ServerList(server, catalog, NoFilter))
    /\ isLoading = InitialLoading(kind, NoCache, data)
    /\ globalCachedData = NoCache
    /\ globalFilter = <<>>
    /\ statusFilter = "all"
    /\ effectPending = TRUE
    /\ inst = 1
    /\ calls = <<>>
    /\ authToken = NoToken
    /\ storage \in Tokens
    /\ location = Dashboard
    /\ last = Handler("mount", NoCall, FALSE, NoResult)
    /\ fetched = NoFetched
    /\ TableRoute

NextFilter ==
    \/ fetchData
    \/ \E f \in FilterTexts : setGlobalFilter(f)
    \/ \E s \in Statuses(kind) \cup {"all"} : setStatusFilter(s)

SpecFilter == InitFilter /\ [][NextFilter]_vars

\* ------------------------------------------------- the request builders
\* The getAll builders called with every argument list, by any caller (the
\* tables pass at most the filter).  The calls stay in flight.
SkipArgs == {0, 10, 25}
LimitArgs == {5, 50, 100}

FilterArgs(k) == {NoFilter, ""} \cup Statuses(k)

\* the argument lists getAll accepts: a prefix of its parameters
ArgLists(k) ==
    IF k = "requests"
    THEN {<<>>} \cup {<<s>> : s \in SkipArgs}
         \cup {<<s, l>> : s \in SkipArgs, l \in LimitArgs}
    ELSE {<<>>} \cup {<<f>> : f \in FilterArgs(k)}
         \cup {<<f, s>> : f \in FilterArgs(k), s \in SkipArgs}
         \cup {<<f, s, l>> : f \in FilterArgs(k), s \in SkipArgs,
                              l \in LimitArgs}

InitQuery ==
    /\ kind \in Kinds
    /\ catalog = DefaultCatalog(kind)
    /\ server = [id \in Ids |-> StatusList(kind)[1]]
    /\ data = <<>>
    /\ isLoading = FALSE
    /\ globalCachedData = NoCache
    /\ globalFilter = <<>>
    /\ statusFilter = "all"
    /\ effectPending = FALSE
    /\ inst = 1
    /\ calls = <<>>
    /\ authToken = NoToken
    /\ storage \in Tokens
    /\ location = Dashboard
    /\ last = Handler("mount", NoCall, FALSE, NoResult)
    /\ fetched = NoFetched
    /\ TableRoute

\* <resource>Api.getAll(...args) is called: the endpoint is built and
\* apiRequest runs up to its await
callGetAll(args) ==
    /\ Alive /\ Len(calls) < MaxCalls
    /\ LET tok == getAuthToken(authToken, storage)
           c == [NoCall EXCEPT !.op = "getAll", !.inst = inst, !.auth = tok,
                               !.phase = "sent",
                               !.endpoint = getAll(kind, args)]
       IN  /\ authToken' = tok
           /\ calls' = Append(calls, c)
           /\ last' = Handler("getAll", c, FALSE, NoResult)
    /\ UNCHANGED <<backendVars, tableVars, storage, location, fetched,
                   pageVars>>

NextQuery == \E args \in ArgLists(kind) : callGetAll(args)

SpecQuery == InitQuery /\ [][NextQuery]_vars

\* ------------------------------------------------------------ the claims
\* the client handled an answer to a status write of the live component
UpdateSettled ==
    /\ last.op = "settled"
    /\ last.call.op = "update"
    /\ last.call.inst = inst

\* the client handled an answer to a list fetch of the live component
FetchSettled ==
    /\ last.op = "settled"
    /\ last.call.op = "fetch"
    /\ last.call.inst = inst

\* C1: a status write of S1 to a row of status S0 whose answer is the next
\* thing the client handles leaves the row at S1 when the backend reports
\* success, and back at exactly S0 when it reports failure.
C1_RoundTrip ==
    (UpdateSettled /\ last.direct) =>
        /\ last.call.rowIndex <= Len(data)
        /\ data[last.call.rowIndex]._id = last.call.id
        /\ data[last.call.rowIndex].status =
              IF last.result.success THEN last.call.value ELSE last.call.prev

C1_Witness ==
    /\ UpdateSettled /\ last.direct
    /\ ~last.result.success
    /\ last.call.prev # last.call.value
    /\ data[last.call.rowIndex].status = last.call.prev

\* C2: in the cached tables, after a failed status write the cached row
\* holds the status the row had before the write.
C2_CacheRestored ==
    (UpdateSettled /\ last.direct /\ ~last.result.success /\ HasCache(kind)) =>
        /\ globalCachedData.has
        /\ last.call.rowIndex <= Len(globalCachedData.rows)
        /\ globalCachedData.rows[last.call.rowIndex].status = last.call.prev

\* a status write for the entity is outstanding: sent and not yet handled
Outstanding(id) ==
    \E k \in 1..Len(calls) : calls[k].op = "update" /\ calls[k].id = id

\* C3: whenever no status write is outstanding for a held row, the status
\* the table holds for it is the backend's status of that entity.
C3_InSync ==
    \A i \in 1..Len(data) :
        ~Outstanding(data[i]._id) => data[i].status = server[data[i]._id]

\* C4: nothing excludes a second status write to a row while one is
\* outstanding: whenever the row is displayed and a call slot is free, the
\* edit is enabled.
C4_NotExcluded ==
    \A i \in 1..Len(Shown), v \in Statuses(kind) :
        ( /\ Alive /\ ~effectPending /\ Len(calls) < MaxCalls
          /\ \E k \in 1..Len(calls) :
                calls[k].op = "update" /\ calls[k].rowIndex = i )
        => ENABLED EditCell(i, "status", v)

\* the first write succeeded, and the row shows the value of a second write
\* issued while the first was outstanding
C4_Witness ==
    /\ UpdateSettled
    /\ last.result.success
    /\ \E k \in 1..Len(calls) :
          /\ calls[k].op = "update"
          /\ calls[k].rowIndex = last.call.rowIndex
          /\ calls[k].id = last.call.id
          /\ calls[k].prev = last.call.value
          /\ calls[k].value # last.call.value
          /\ data[last.call.rowIndex].status = calls[k].value

\* C5: right after the client has handled a 401 answer the token is gone
\* from memory and from storage, the document is being replaced by /login,
\* the call's result is a failure, and getAuthToken would return no token.
C5_Unauthorized ==
    ( /\ last.op = "settled"
      /\ last.call.outcome.kind = "http"
      /\ last.call.outcome.status = 401 )
    => /\ authToken = NoToken
       /\ storage = NoToken
       /\ location = ForcedLogin
       /\ ~last.result.threw
       /\ ~last.result.success
       /\ getAuthToken(authToken, storage) = NoToken

\* a 401 was handled for a call that had been sent with a token
C5_Witness ==
    /\ last.op = "settled"
    /\ last.call.outcome.status = 401
    /\ last.call.auth # NoToken
    /\ authToken = NoToken
    /\ storage = NoToken

\* the fetch outcomes apiRequest reports as a success: a 2xx response whose
\* body parsed
ParsedOk(o) ==
    /\ o.kind = "http"
    /\ o.status \in 200..299
    /\ o.body \in {"json", "null"}

\* C6: whatever the fetch did, the caller gets a tagged result and never an
\* exception: success with the parsed body on a parsed 2xx response, failure
\* with an error message otherwise.
C6_NeverThrows ==
    (last.op = "settled") =>
        /\ ~last.result.threw
        /\ last.result.success <=> ParsedOk(last.call.outcome)
        /\ last.result.success =>
              /\ last.result.data = last.call.outcome.body
              /\ last.result.error = "absent"
        /\ ~last.result.success =>
              /\ last.result.data = "absent"
              /\ last.result.error # "absent"

\* a 2xx answer whose body did not parse came back as a failure result
C6_Witness ==
    /\ last.op = "settled"
    /\ last.call.outcome = Http(200, "malformed")
    /\ ~last.result.threw
    /\ ~last.result.success

\* C7: when a list fetch succeeds the held rows are exactly the array the
\* backend returned (and so is the cache, where there is one).
C7_FetchExact ==
    (FetchSettled /\ Usable(last.result)) =>
        /\ data = last.call.rows
        /\ HasCache(kind) => globalCachedData = Cached(last.call.rows)

C7_Witness ==
    /\ FetchSettled /\ Usable(last.result)
    /\ Len(last.call.rows) > 0
    /\ statusFilter # "all"
    /\ \E i \in 1..Len(data) : data[i].status # statusFilter

\* C8: a step that handles a failed list fetch leaves the held rows and
\* the cache as they were.
C8_FailedFetchKeepsRows ==
    [][ ( /\ calls' # calls
          /\ last'.op = "settled"
          /\ last'.call.op = "fetch"
          /\ ~last'.result.success )
        => /\ data' = data
           /\ globalCachedData' = globalCachedData
           /\ ~last'.result.threw ]_vars

C8_Witness ==
    /\ FetchSettled
    /\ ~last.result.success
    /\ Len(data) > 0
    /\ ~isLoading

\* the rows filteredData keeps when only the free text is applied
TextOnly == filteredData(kind, data, "all", globalFilter)

\* C9: under status filter "all" the rows shown are those shown with no
\* status filter, and under any other value every row shown has that status.
C9_StatusFilter ==
    (Alive /\ ~effectPending /\ ~isLoading) =>
        IF statusFilter = "all" THEN Shown = TextOnly
        ELSE \A i \in 1..Len(Shown) : Shown[i].status = statusFilter

\* the two cases of a letter
CasePairs == {{"a", "A"}, {"b", "B"}, {"c", "C"}, {"h", "H"}, {"t", "T"}}

SameLetter(x, y) == x = y \/ {x, y} \in CasePairs

\* f is a substring of t, letter case ignored
ContainsIgnoringCase(t, f) ==
    \E off \in 0..(Len(t) - Len(f)) :
        \A i \in 1..Len(f) : SameLetter(t[off + i], f[i])

\* f is a substring of t as typed
ContainsExactly(t, f) ==
    \E off \in 0..(Len(t) - Len(f)) : SubSeq(t, off + 1, off + Len(f)) = f

\* the filter string is a case-insensitive substring of brand, model, year
\* or (bookings) phone
ClaimedMatch(item) ==
    \/ globalFilter = <<>>
    \/ ContainsIgnoringCase(item.brand, globalFilter)
    \/ ContainsIgnoringCase(item.model, globalFilter)
    \/ ContainsIgnoringCase(item.year, globalFilter)
    \/ (kind = "bookings" /\ ContainsIgnoringCase(item.phone, globalFilter))

\* the same, with the phone compared as typed
AmendedMatch(item) ==
    \/ globalFilter = <<>>
    \/ ContainsIgnoringCase(item.brand, globalFilter)
    \/ ContainsIgnoringCase(item.model, globalFilter)
    \/ ContainsIgnoringCase(item.year, globalFilter)
    \/ (kind = "bookings" /\ ContainsExactly(item.phone, globalFilter))

FetchInFlight ==
    \E k \in 1..Len(calls) : calls[k].op = "fetch" /\ calls[k].inst = inst

\* C11: a mount, and in the bookings table a change of the status select,
\* makes a fetch due; and once the due fetch has been issued the loading
\* placeholder is rendered only while a list fetch is in flight and no rows
\* are held, so that held rows stay displayed during a fetch.
C11_Placeholder ==
    /\ last.op = "mount" => effectPending
    /\ (Alive /\ ~effectPending /\ isLoading) =>
          (FetchInFlight /\ Len(data) = 0)

\* C12: in the cached tables a list fetch that succeeded has left exactly
\* the fetched rows in the cache, and a later mount that finds the cache
\* set starts with the cache's rows and without the loading placeholder,
\* whatever initialData it was given.
C12_CacheAndMount ==
    /\ ( /\ last.op = "settled"
         /\ last.call.op = "fetch"
         /\ Usable(last.result)
         /\ HasCache(kind) )
       => globalCachedData = Cached(last.call.rows)
    /\ ( /\ last.op = "mount"
         /\ inst > 1
         /\ HasCache(kind)
         /\ globalCachedData.has )
       => (data = globalCachedData.rows /\ ~isLoading)

\* a revisit started from cached rows that differ from both values the
\* initialData prop can have
C12_Witness ==
    /\ last.op = "mount"
    /\ inst > 1
    /\ HasCache(kind)
    /\ globalCachedData.has
    /\ data = globalCachedData.rows
    /\ ~isLoading
    /\ Len(data) > 0
    /\ data # ServerList(server, catalog, NoFilter)

\* C13: when the live table handles a successful list fetch that asked for
\* the same filter as the successful fetch before it, and the backend held
\* the same statuses for both answers, the table holds the same rows as it
\* held after that earlier fetch.
C13_Idempotent ==
    [][ ( /\ Len(calls') < Len(calls)
          /\ last'.op = "settled"
          /\ last'.call.op = "fetch"
          /\ last'.call.inst = inst
          /\ Usable(last'.result)
          /\ fetched.valid
          /\ fetched.filter = last'.call.filter
          /\ fetched.seen = last'.call.seen )
        => data' = fetched.rows ]_vars

\* a second fetch under the same status filter of the same backend statuses
\* was handled, and the table holds the rows it returned
C13_Witness ==
    /\ FetchSettled
    /\ Usable(last.result)
    /\ fetched.again
    /\ fetched.filter # NoFilter
    /\ Len(fetched.rows) > 0
    /\ data = fetched.rows

\* the results of the four calls of the dashboard page are all in
AllFourSettled ==
    kind = "dashboard" /\ \A op \in DashboardOps : promises[op].done

\* the state slice a list call fills
Slice(op) ==
    IF op = "getBookings" THEN bookings
    ELSE IF op = "getInsuranceRequests" THEN insuranceRequests
    ELSE generalRequests

\* C14: once the four calls have settled, a stats call that failed (or
\* brought no data) gives the error view and no stats, whatever the three
\* list calls did; a stats call that brought its data gives the page with no
\* error, each list slice holding the backend's list when its call
\* succeeded and staying empty when it failed.
C14_StatsDecide ==
    AllFourSettled =>
        /\ ~promises["getStats"].result.success => error # "null"
        /\ ~Usable(promises["getStats"].result) =>
              (View = "error" /\ stats = "null")
        /\ Usable(promises["getStats"].result) =>
              /\ View = "page"
              /\ error = "null"
              /\ \A op \in ListOps :
                    Slice(op) = IF Usable(promises[op].result)
                                THEN records[op] ELSE <<>>

\* the stats call was refused while the three list calls brought their
\* rows: the error view is up
C14_Witness ==
    /\ AllFourSettled
    /\ promises["getStats"].result.error = "HTTP error! status"
    /\ \A op \in ListOps :
          Usable(promises[op].result) /\ Len(Slice(op)) > 0
    /\ View = "error"

\* C15: the effect puts the four calls in flight together, and while any of
\* the four has not settled the page returns the loading view.
C15_LoadingUntilAll ==
    /\ last.op = "fetchDashboardData" =>
          /\ Len(calls) = Len(DashboardCalls)
          /\ \A i \in 1..Len(calls) : calls[i].op = DashboardCalls[i]
    /\ (kind = "dashboard" /\ \E op \in DashboardOps : ~promises[op].done)
          => View = "loading"

\* the stats call and two list calls have settled, one list call is still
\* outstanding, and the loading view is up
C15_Witness ==
    /\ kind = "dashboard"
    /\ Usable(promises["getStats"].result)
    /\ Cardinality({op \in DashboardOps : promises[op].done}) = 3
    /\ Len(calls) = 1
    /\ View = "loading"

\* the entries of a sequence
Range(s) == {s[i] : i \in 1..Len(s)}

\* C16: on the rendered page the feed holds the five latest of the held,
\* tagged records (all of them when there are fewer), the latest first:
\* every entry is a tagged record of one of the three lists, none twice, and
\* is at least as recent as every record left out.
C16_RecentActivity ==
    View = "page" =>
        LET feed == recentActivity
            all == Range(Tag(bookings, "Booking", "Booking"))
                   \cup Range(Tag(insuranceRequests, "Insurance", "Insurance"))
                   \cup Range(Tag(generalRequests, "General", "Request"))
        IN  /\ Len(feed) = IF Cardinality(all) < 5 THEN Cardinality(all) ELSE 5
            /\ Range(feed) \subseteq all
            /\ Cardinality(Range(feed)) = Len(feed)
            /\ \A i \in 1..Len(feed), j \in 1..Len(feed) :
                  i < j => feed[i].createdAt >= feed[j].createdAt
            /\ \A e \in Range(feed), r \in all \ Range(feed) :
                  e.createdAt >= r.createdAt

\* more than five records are held, the feed has entries of all three
\* sources, and a record older than all of them was left out
C16_Witness ==
    /\ View = "page"
    /\ Len(Activity) > FeedSize
    /\ {recentActivity[i].type : i \in 1..Len(recentActivity)} =
          {"Booking", "Insurance", "General"}
    /\ \E r \in Range(Activity) \ Range(recentActivity) :
          \A e \in Range(recentActivity) : e.createdAt > r.createdAt

\* C17: a mount of the layout starts with nothing rendered and the token
\* check due; the children get rendered only by that check finding a token;
\* and a check that finds no token leaves nothing rendered and sends the
\* router to /login.
C17_ProtectedRoute ==
    /\ [](layoutEffect => ~isAuthenticated)
    /\ [][ /\ (location # Dashboard /\ location' = Dashboard) =>
                (layoutEffect' /\ ~isAuthenticated')
           /\ (~isAuthenticated /\ isAuthenticated') =>
                (layoutEffect /\ getAuthToken(authToken, storage) # NoToken)
           /\ ( /\ layoutEffect /\ ~layoutEffect'
                /\ location = Dashboard
                /\ authToken = NoToken /\ storage = NoToken )
              => (location' = Login /\ ~isAuthenticated') ]_vars

\* the layout was mounted with no token anywhere and its check has sent the
\* router to /login
C17_Witness ==
    /\ last.op = "DashboardLayout"
    /\ authToken = NoToken
    /\ storage = NoToken
    /\ location = Login
    /\ ~isAuthenticated

\* C18: right after handleLogout the token is gone from memory and from
\* storage, the route is /login and getAuthToken would return no token; and
\* from a state without a token every step other than setAuthToken (alone
\* or in a sign-in) keeps it so and sends its requests without a token.
C18_Logout ==
    /\ [](last.op = "handleLogout" =>
            /\ authToken = NoToken
            /\ storage = NoToken
            /\ location = Login
            /\ getAuthToken(authToken, storage) = NoToken)
    /\ [][ ( /\ authToken = NoToken
             /\ storage = NoToken
             /\ last'.op \notin {"setAuthToken", "login"} )
           => /\ authToken' = NoToken
              /\ storage' = NoToken
              /\ Len(calls') > Len(calls) =>
                    calls'[Len(calls')].auth = NoToken ]_vars

\* the logout happened while a request sent with the token was in flight
C18_Witness ==
    /\ last.op = "handleLogout"
    /\ \E k \in 1..Len(calls) : calls[k].auth # NoToken
    /\ authToken = NoToken
    /\ storage = NoToken
    /\ location = Login

\* C19: a request carries the token held when it is issued, in memory or
\* else in storage, and carries none when none is held.
C19_BearerHeader ==
    [][ Len(calls') > Len(calls) =>
          \A k \in (Len(calls) + 1)..Len(calls') :
              calls'[k].auth =
                  IF authToken # NoToken THEN authToken ELSE storage ]_vars

\* a request went out with the token that was in storage
C19_Witness ==
    /\ last.op = "apiCall"
    /\ last.call.auth # NoToken
    /\ last.call.auth = storage
    /\ \E k \in 1..Len(calls) : calls[k] = last.call

\* C20: the token in memory, when there is one, is the token in storage;
\* and getAuthToken leaves in memory (and returns) the token that was in
\* memory, or else the one in storage, without writing to storage.
C20_TokenMirror ==
    /\ [](authToken # NoToken => authToken = storage)
    /\ [][ last'.op = "getAuthToken" =>
             /\ authToken' = IF authToken # NoToken THEN authToken ELSE storage
             /\ storage' = storage ]_vars

\* after a 401 and a new sign-in, getAuthToken has loaded the new token
\* from storage into the fresh document's memory
C20_Witness ==
    /\ last.op = "getAuthToken"
    /\ authToken = "t2"
    /\ storage = "t2"
    /\ location = Login

\* --------------------------------------------- rows without identifier
\* The table is mounted with an initialData prop some of whose rows have no
\* _id (0 stands for a missing or empty _id); the backend's own rows always
\* have one.
WithoutId(rows, S) ==
    [i \in 1..Len(rows) |->
        IF rows[i]._id \in S THEN [rows[i] EXCEPT !._id = 0] ELSE rows[i]]

InitFrame ==
    /\ kind \in Kinds
    /\ catalog = DefaultCatalog(kind)
    /\ server \in [Ids -> Statuses(kind)]
    /\ \E S \in SUBSET Ids :
          LET initialData == WithoutId(ServerList(server, catalog, NoFilter), S)
          IN  /\ data = InitialRows(kind, NoCache, initialData)
              /\ isLoading = InitialLoading(kind, NoCache, initialData)
    /\ globalCachedData = NoCache
    /\ globalFilter = <<>>
    /\ statusFilter = "all"
    /\ effectPending = TRUE
    /\ inst = 1
    /\ calls = <<>>
    /\ authToken = NoToken
    /\ storage \in Tokens
    /\ location = Dashboard
    /\ last = Handler("mount", NoCall, FALSE, NoResult)
    /\ fetched = NoFetched
    /\ TableRoute

NextFrame ==
    \/ fetchData
    \/ \E s \in {"all", StatusList(kind)[1]} : setStatusFilter(s)
    \/ \E i \in 1..NumRows, col \in Columns, v \in Statuses(kind) :
          EditCell(i, col, v)
    \/ \E k \in 1..MaxCalls :
          \E o \in {Http(200, "json"), Http(500, "malformed")} : Respond(k, o)
    \/ \E k \in 1..MaxCalls : Settle(k)

SpecFrame == InitFrame /\ [][NextFrame]_vars

\* ------------------------------------------------- loading, with fairness
\* A table or the dashboard page is mounted, its fetches are answered with
\* data or refused, and every call that can be answered or handled
\* eventually is: the effect of a mounted component runs, the backend
\* answers, and the event loop resumes the awaiting function.  A call whose
\* document is being replaced (after a 401) is not handled any more.
LiveOutcomes == {Http(200, "json"), Http(401, "json"), Http(500, "malformed")}

\* the positions a call in flight can have
Slots == 1..(MaxCalls + Len(DashboardCalls))

InitLive ==
    \/ InitDashboard({<<>>})
    \/ /\ kind \in Kinds
       /\ catalog = DefaultCatalog(kind)
       /\ server = [id \in Ids |-> StatusList(kind)[1]]
       /\ \E initialData \in {<<>>, ServerList(server, catalog, NoFilter)} :
             /\ data = InitialRows(kind, NoCache, initialData)
             /\ isLoading = InitialLoading(kind, NoCache, initialData)
       /\ globalCachedData = NoCache
       /\ globalFilter = <<>>
       /\ statusFilter = "all"
       /\ effectPending = TRUE
       /\ inst = 1
       /\ calls = <<>>
       /\ authToken = NoToken
       /\ storage \in Tokens
       /\ location = Dashboard
       /\ last = Handler("mount", NoCall, FALSE, NoResult)
       /\ fetched = NoFetched
       /\ TableRoute

\* the mount effect, or the filter effect, of the mounted table
tableEffect == kind \in Kinds /\ fetchData

tableSelect ==
    /\ kind = "bookings"
    /\ \E s \in {"all", StatusList(kind)[1]} : setStatusFilter(s)

\* the status cell of the first displayed row is set to another status
tableEdit ==
    /\ kind \in Kinds
    /\ EditCell(1, "status", StatusList(kind)[2])

tableRevisit ==
    /\ kind \in Kinds
    /\ \E initialData \in {<<>>, ServerList(server, catalog, NoFilter)} :
          Remount(initialData)

Answer(k) == \E o \in LiveOutcomes : Respond(k, o)

NextLive ==
    \/ tableEffect
    \/ tableSelect
    \/ tableEdit
    \/ tableRevisit
    \/ fetchDashboardData
    \/ \E k \in Slots : Answer(k)
    \/ \E k \in Slots : Settle(k)

Fairness ==
    /\ WF_vars(tableEffect)
    /\ WF_vars(fetchDashboardData)
    /\ \A k \in Slots : WF_vars(Answer(k))
    /\ \A k \in Slots : WF_vars(Settle(k))

SpecLive == InitLive /\ [][NextLive]_vars /\ Fairness

\* ------------------------------------------------------------------- C21
\* the query string expected for one argument list: status_filter only
\* when a filter is given, then skip, then limit, 0 and 50 when not given
ClaimedQuery(k, args) ==
    LET shift == IF k = "requests" THEN 1 ELSE 0
        given == k # "requests" /\ Len(args) >= 1
                 /\ args[1] \notin {NoFilter, ""}
        skip == IF Len(args) >= 2 - shift THEN args[2 - shift] ELSE 0
        limit == IF Len(args) >= 3 - shift THEN args[3 - shift] ELSE 50
    IN  (IF given THEN "status_filter=" \o args[1] \o "&" ELSE "")
        \o "skip=" \o ToString(skip) \o "&limit=" \o ToString(limit)

\* C21: every call of a getAll builder hands apiRequest the resource's list
\* path followed by "?" and the query string status_filter (only when a
\* filter is given), skip, limit, in this order, with skip 0 and limit 50
\* when they are not passed.
C21_QueryString ==
    [][\A args \in ArgLists(kind) :
          callGetAll(args) =>
             calls'[Len(calls')].endpoint =
                ListPath(kind) \o "?" \o ClaimedQuery(kind, args)]_vars

\* bookingsApi.getAll("confirmed", 0, 50) and bookingsApi.getAll() have
\* been called, and built the two query strings of the scenario
C21_Witness ==
    /\ kind = "bookings"
    /\ Len(calls) = 2
    /\ calls[1].op = "getAll"
    /\ calls[1].endpoint =
          "/admin/bookings?status_filter=confirmed&skip=0&limit=50"
    /\ calls[2].endpoint = "/admin/bookings?skip=0&limit=50"

\* ------------------------------------------------------------------- C22
\* C22: when the answer to a status update is a failure, handling it changes
\* no held row other than one with the identifier the update was sent for,
\* whatever list fetches were handled since the optimistic write.
C22_RollbackSameEntity ==
    [][\A k \in 1..Len(calls) :
          (/\ Settle(k)
           /\ calls[k].op = "update"
           /\ ~apiRequest(calls[k].outcome).success)
          => /\ Len(data') = Len(data)
             /\ \A i \in 1..Len(data) :
                   data[i]._id # calls[k].id => data'[i] = data[i]]_vars

\* ------------------------------------------------------------------- C23
\* the argument the bookings table passes to bookingsApi.getAll now
SelectedFilter == IF statusFilter = "all" THEN NoFilter ELSE statusFilter

\* C23: in the bookings table, when the list answer for the status filter
\* selected now has been handled and put its rows into the table, and the
\* only fetch still in flight, one for another filter, is handled next, the
\* table goes on holding the rows answered for the selected filter.
C23_LatestFilterWins ==
    [][\A k \in 1..Len(calls) :
          (/\ Settle(k)
           /\ kind = "bookings"
           /\ ~effectPending
           /\ Len(calls) = 1
           /\ calls[k].op = "fetch"
           /\ calls[k].inst = inst
           /\ calls[k].filter # SelectedFilter
           /\ last.op = "settled"
           /\ last.call.op = "fetch"
           /\ last.call.inst = inst
           /\ last.call.filter = SelectedFilter
           /\ Usable(last.result)
           /\ data = last.call.rows)
          => data' = last.call.rows]_vars

\* ------------------------------------------------------------------- C24
\* C24: when the client-side filters hide some of the held rows and the
\* status cell of a displayed row is edited, updateData being called with
\* the row's index in the displayed list, the identifier sent to the backend
\* is the edited row's and no held row of another entity is changed.
C24_EditedRowIsTarget ==
    [][\A i \in 1..Len(Shown) : \A v \in Statuses(kind) :
          (/\ EditCell(i, "status", v)
           /\ Len(Shown) < Len(data))
          => /\ last'.call.id = Shown[i]._id
             /\ \A j \in 1..Len(data) :
                   data[j]._id # Shown[i]._id => data'[j] = data[j]]_vars

\* ------------------------------------------------------------------- C25
\* rows `after` are rows `before` except, at most, for the status field of
\* the row at index i: same number and order of rows, every other row and
\* every other field as before
OnlyStatusAt(before, after, i) ==
    /\ Len(after) = Len(before)
    /\ \A j \in 1..Len(before) :
          /\ j # i => after[j] = before[j]
          /\ after[j]._id = before[j]._id
          /\ after[j].brand = before[j].brand
          /\ after[j].model = before[j].model
          /\ after[j].year = before[j].year
          /\ after[j].phone = before[j].phone

\* C25: updateData called for a column other than "status", or on a row
\* without identifier, changes no state of the component, the client or the
\* backend and issues no call; otherwise it issues one call and its
\* optimistic write changes only the status field of the row at rowIndex.
\* Handling the answer to the status call, rollback included, changes only
\* the status field of the row at the call's rowIndex.
C25_UpdateFrame ==
    [][/\ \A i \in 1..Len(Shown) : \A col \in Columns :
            \A v \in Statuses(kind) :
               EditCell(i, col, v) =>
                  IF col # "status" \/ data[i]._id = 0
                  THEN UNCHANGED <<backendVars, tableVars, calls, authVars,
                                   pageVars>>
                  ELSE /\ OnlyStatusAt(data, data', i)
                       /\ data'[i].status = v
                       /\ Len(calls') = Len(calls) + 1
                       /\ calls'[Len(calls')].id = data[i]._id
       /\ \A k \in 1..Len(calls) :
            (Settle(k) /\ calls[k].op = "update")
            => OnlyStatusAt(data, data', calls[k].rowIndex)]_vars

\* updateData has just run on a displayed row and issued nothing, while no
\* displayed row has an identifier
C25_Witness ==
    /\ last.op = "updateData"
    /\ last.call = NoCall
    /\ Len(Shown) >= 1
    /\ \A i \in 1..Len(Shown) : Shown[i]._id = 0

\* ------------------------------------------------------------------- C26
\* the loading flag of the mounted component
Loading == IF kind = "dashboard" THEN loading ELSE isLoading

\* a list fetch, or one of the four calls of the dashboard page, issued by
\* the mounted component
IsPageFetch(c) == c.inst = inst /\ c.op \in {"fetch"} \cup DashboardOps

PageFetchIssued == \E k \in 1..Len(calls) : IsPageFetch(calls[k])

\* the component's effect has run and none of its fetches is in flight
PageFetchesSettled ==
    /\ ~effectPending
    /\ \A k \in 1..Len(calls) : ~IsPageFetch(calls[k])

\* C26: in every table and on the dashboard page, the component is not in
\* the loading state once all its fetches have settled; and, every call
\* being answered and handled in the end, after a fetch is issued the
\* loading flag eventually is false (or a 401 has sent the document to the
\* login page, after which its calls are not handled), whatever the
\* answers.
C26_LoadingEnds ==
    /\ [](PageFetchesSettled => ~Loading)
    /\ (PageFetchIssued ~> (~Loading \/ location = ForcedLogin))

\* the fetch of a table without rows, which put it in the loading state,
\* was refused, and the table has left the loading state
C26_Witness ==
    /\ kind \in Kinds
    /\ Len(data) = 0
    /\ last.op = "settled"
    /\ IsPageFetch(last.call)
    /\ last.call.outcome = Http(500, "malformed")
    /\ PageFetchesSettled
    /\ ~Loading
    /\ location = Dashboard
====
